---- MODULE Spec2Model ----
(***************************************************************************)
(* Batch image rotation (src/src/imageRotationNPP.cpp): main() scans a     *)
(* directory, runs processImage() on every file found and reports.         *)
(*                                                                         *)
(* Strings that the program inspects (extensions, stems) are sequences of  *)
(* one-character strings, so that tolower, the leading-dot test and the    *)
(* concatenations are computed as the code computes them.                  *)
(*                                                                         *)
(* The NPP / CUDA-samples / FreeImage calls are library calls: each is a   *)
(* step that either succeeds or raises, the choice left open.  The device  *)
(* image wrapper npp::ImageNPP_8u_C1 allocates with nppiMalloc in its      *)
(* constructor and calls nppiFree on its pixels in its destructor.         *)
(***************************************************************************)
EXTENDS Integers, Sequences, FiniteSets, TLC

\* ------------------------------------------------------------------ bounds
\* Longest directory listing explored.
MaxFiles == 3
\* Number of pixels of a destination image.
NPix == 2
\* Longest batch duration explored, in milliseconds.
MaxMs == 4

\* --------------------------------------------------------------- constants
EXIT_SUCCESS == 0
EXIT_FAILURE == 1

\* ----------------------------------------------------------------- strings
Dot == "."
TIFF == <<".", "t", "i", "f", "f">>
PGM == <<".", "p", "g", "m">>
PPM == <<".", "p", "p", "m">>
JPG == <<".", "j", "p", "g">>
PNG == <<".", "p", "n", "g">>
BMP == <<".", "b", "m", "p">>
ROTATED == <<"_", "r", "o", "t", "a", "t", "e", "d">>
SLASH == <<"/">>

\* ::tolower on one character (the characters the model's file names use)
tolowerChar(c) ==
    CASE c = "P" -> "p"
      [] c = "G" -> "g"
      [] c = "M" -> "m"
      [] c = "T" -> "t"
      [] c = "I" -> "i"
      [] c = "F" -> "f"
      [] OTHER -> c

\* std::transform(ext.begin(), ext.end(), ext.begin(), ::tolower)
ToLower(s) == [k \in 1..Len(s) |-> tolowerChar(s[k])]

\* ------------------------------------------------------------ environment
\* A regular file of the input tree: the directory it lies in (relative to
\* inputDir), its stem and its extension as fs::path splits them.
MkFile(d, s, e) == [dir |-> d, stem |-> s, ext |-> e]

TXT == <<".", "t", "x", "t">>

FileUniverse ==
    << MkFile(<<"s", "1">>, <<"a">>, PGM),
       MkFile(<<"s", "1">>, <<"e">>, <<".", "P", "P", "M">>),
       MkFile(<<"s", "2">>, <<"a">>, PGM),
       MkFile(<<"s", "1">>, <<"n">>, TXT),
       MkFile(<<"s", "1">>, <<"b">>, PGM) >>

\* The files of FileUniverse at the positions S, in ascending order.
RECURSIVE Pick(_, _)
Pick(S, k) ==
    IF k > Len(FileUniverse) THEN <<>>
    ELSE (IF k \in S THEN << FileUniverse[k] >> ELSE <<>>) \o Pick(S, k + 1)

Reverse(s) == [ k \in 1..Len(s) |-> s[Len(s) + 1 - k] ]

\* The listings fs::recursive_directory_iterator may produce: every regular
\* file of the tree once.  The order is the file system's; the model walks a
\* tree in one order or in the opposite one.
Listings ==
    LET trees == { S \in SUBSET (1..Len(FileUniverse)) : Cardinality(S) <= MaxFiles }
    IN  { Pick(S, 1) : S \in trees } \cup { Reverse(Pick(S, 1)) : S \in trees }

\* The --extension argument: absent, or the text given.
NoArg == <<"-">>
ExtensionArgs == { NoArg, <<"p", "g", "m">> }

\* ------------------------------------------------------------------- state
VARIABLES
    tree,          \* the input directory's listing (environment)
    extArg,        \* the --extension argument (environment)
    logWritable,   \* whether processing_log.txt can be opened for writing (environment)
    pc,            \* main's position
    exitCode,      \* <<code>> once exit(code) was called, <<>> before
    startup,       \* outcome of the device start-up: "none", "ok", "noDevice", "noCapability", "noOutputDir"
    extension,     \* std::string extension
    imageFiles,    \* std::vector<std::string> imageFiles
    i,             \* loop index of the batch loop
    successCount,
    failCount,
    attempted,     \* indices of imageFiles handed to processImage, in call order
    results,       \* processImage's return values in call order
    stage,         \* processImage's position, "idle" outside it
    trace,         \* the stages the current invocation has executed, with their outcome
    exc,           \* the exception in flight or caught in the current invocation
    retval,        \* processImage's return value (at stage "ret")
    oDeviceSrc,    \* the source wrapper's device pointer, NULL before construction
    oDeviceDst,    \* the destination wrapper's device pointer
    devHeap,       \* device buffers allocated and not freed
    frees,         \* nppiFree calls made by the current invocation, per buffer
    nAlloc,        \* nppiMalloc calls that returned a buffer, whole run
    nFree,         \* nppiFree calls, whole run
    dstPix,        \* contents of the destination device buffer
    written,       \* destination pixels the rotate kernel wrote
    hostDst,       \* contents of oHostDst
    outDir,        \* image files of the output directory: [name, img, complete]
    saved,         \* files the current invocation wrote
    cerrLines,     \* diagnostics processImage wrote to std::cerr
    summaryPrinted,
    logWritten,
    totalDuration, \* <<ms>> once endTime - startTime was taken, <<>> before
    avgPrinted,    \* <<ms>>: "Average time per image" of the console summary
    logFile        \* <<contents>> of processing_log.txt once written, <<>> before

vars == << tree, extArg, logWritable, pc, exitCode, startup, extension, imageFiles, i,
           successCount, failCount, attempted, results, stage, trace, exc,
           retval, oDeviceSrc, oDeviceDst, devHeap, frees, nAlloc, nFree,
           dstPix, written, hostDst, outDir, saved, cerrLines,
           summaryPrinted, logWritten, totalDuration, avgPrinted, logFile >>

repVars == << totalDuration, avgPrinted, logFile >>
mainVars == << pc, exitCode, startup, extension, imageFiles, i, successCount,
               failCount, summaryPrinted, logWritten, repVars >>
envVars == << tree, extArg, logWritable >>
bufVars == << oDeviceSrc, oDeviceDst, devHeap, frees, nAlloc, nFree >>
pixVars == << dstPix, written, hostDst >>

piVars == << stage, trace, exc, retval, saved >>

NULL == [img |-> 0, which |-> "null"]
NoPix == <<>>
NoFrees == [src |-> 0, dst |-> 0]
NoExc == "none"
ExcKinds == { "npp", "other" }

\* std::string outputDir
outputDir == <<"o">>

\* ------------------------------------------------------------ getImageFiles
\* The files of the listing whose lower-cased extension equals `ext`, in
\* listing order.
getImageFiles(directory, ext) ==
    SelectSeq(directory, LAMBDA f : ToLower(f.ext) = ext)

\* extension = ext; if (extension[0] != '.') extension = "." + extension;
NormalizeExtension(arg) ==
    IF arg = NoArg THEN TIFF
    ELSE IF Len(arg) = 0 \/ arg[1] # Dot THEN <<Dot>> \o arg ELSE arg

\* std::vector<std::string> extensions of the fallback
Alternatives == << PGM, PPM, JPG, PNG, BMP >>

\* The position in `alts` of the first extension that matches a file, 0 if none:
\* the for loop that breaks at the first non-empty result.
FirstAlternativeLastWins(directory, alts) ==
    LET hits == { k \in 1..Len(alts) : getImageFiles(directory, alts[k]) # <<>> }
    IN  IF hits = {} THEN 0 ELSE CHOOSE k \in hits : \A m \in hits : k >= m
FirstAlternative(directory, alts) ==
    LET hits == { k \in 1..Len(alts) : getImageFiles(directory, alts[k]) # <<>> }
    IN  IF hits = {} THEN 0 ELSE CHOOSE k \in hits : \A m \in hits : k <= m

\* outputDir + "/" + stem + "_rotated" + extension
OutputPath(dir, f) == dir \o SLASH \o f.stem \o ROTATED \o f.ext

\* exit(failCount == 0 ? EXIT_SUCCESS : EXIT_FAILURE)
ExitStatus(fc) == IF fc = 0 THEN EXIT_SUCCESS ELSE EXIT_FAILURE

\* the loop condition i < imageFiles.size()
LoopConditionSkipsLast(idx, n) == idx + 1 < n
LoopCondition(idx, n) == idx < n

\* if (success) successCount++ else failCount++
CountAfterNoElse(success, sc, fc) == << sc + 1, fc >>
CountAfter(success, sc, fc) ==
    IF success THEN << sc + 1, fc >> ELSE << sc, fc + 1 >>

\* if (imageFiles.empty()) after the fallback: the no-files exit
NoFilesFoundUnchecked(files) == FALSE
NoFilesFound(files) == files = <<>>

\* ------------------------------------------------------------ device heap
Buf(img, which) == [img |-> img, which |-> which]

\* nppiFree(p): the heap after the call.  Freeing a pointer that is not
\* live is reported by the runtime and changes nothing.
nppiFree(p, heap) == heap \ {p}

\* The pointers the destructors of the device wrappers in scope pass to
\* nppiFree, in destruction order (oDeviceDst before oDeviceSrc).
ScopeExitFreesNothing(src, dst) == <<>>
ScopeExitFrees(src, dst) ==
    (IF dst = NULL THEN <<>> ELSE <<dst>>) \o (IF src = NULL THEN <<>> ELSE <<src>>)

\* The explicit clean-up of the success path: nppiFree(oDeviceSrc.data());
\* nppiFree(oDeviceDst.data());
ExplicitFrees(src, dst) == << src, dst >>

\* A run of nppiFree calls applied to the heap / the per-buffer call counts.
RECURSIVE FreeAll(_, _)
FreeAll(ps, heap) ==
    IF ps = <<>> THEN heap ELSE FreeAll(Tail(ps), nppiFree(Head(ps), heap))

RECURSIVE CountFrees(_, _)
CountFrees(ps, fr) ==
    IF ps = <<>> THEN fr
    ELSE CountFrees(Tail(ps), [fr EXCEPT ![Head(ps).which] = @ + 1])

\* The handlers of main that catch exception `e` (catch (npp::Exception &)
\* and catch (...)): both print and exit(EXIT_FAILURE).
MainCatch(e) == EXIT_FAILURE

\* The handler of processImage that catches exception `e`, "none" if it
\* escapes: catch (npp::Exception &) and catch (...).
ProcessImageCatchNppOnly(e) == IF e = "npp" THEN "NPP Exception" ELSE NoExc
ProcessImageCatch(e) ==
    IF e = "npp" THEN "NPP Exception" ELSE "Unknown exception occurred"

\* -------------------------------------------------------------------- Init
Init ==
    /\ tree \in Listings
    /\ extArg \in ExtensionArgs
    /\ logWritable \in BOOLEAN
    /\ pc = "start"
    /\ exitCode = <<>>
    /\ startup = "none"
    /\ extension = TIFF
    /\ imageFiles = <<>>
    /\ i = 0
    /\ successCount = 0
    /\ failCount = 0
    /\ attempted = <<>>
    /\ results = <<>>
    /\ stage = "idle"
    /\ trace = <<>>
    /\ exc = NoExc
    /\ retval = FALSE
    /\ oDeviceSrc = NULL
    /\ oDeviceDst = NULL
    /\ devHeap = {}
    /\ frees = NoFrees
    /\ nAlloc = 0
    /\ nFree = 0
    /\ dstPix = NoPix
    /\ written = {}
    /\ hostDst = NoPix
    /\ outDir = {}
    /\ saved = 0
    /\ cerrLines = 0
    /\ summaryPrinted = FALSE
    /\ logWritten = FALSE
    /\ totalDuration = <<>>
    /\ avgPrinted = <<>>
    /\ logFile = <<>>

\* ------------------------------------------------------------ main: start-up
\* findCudaDevice(argc, argv): returns, or the device is unavailable and the
\* run ends through main's handlers.
FindCudaDevice ==
    /\ pc = "start"
    /\ \E ok \in BOOLEAN :
         IF ok
         THEN /\ pc' = "nppinfo"
              /\ UNCHANGED << exitCode, startup >>
         ELSE /\ pc' = "exit"
              /\ startup' = "noDevice"
              /\ exitCode' = << MainCatch("other") >>
    /\ UNCHANGED << envVars, extension, imageFiles, i, successCount, failCount,
                    attempted, results, piVars, bufVars, pixVars, outDir,
                    cerrLines, summaryPrinted, logWritten, repVars >>

\* if (printfNPPinfo(argc, argv) == false) exit(EXIT_SUCCESS);
PrintfNPPinfo ==
    /\ pc = "nppinfo"
    /\ \E bVal \in BOOLEAN :
         IF bVal
         THEN /\ pc' = "config"
              /\ startup' = "ok"
              /\ UNCHANGED exitCode
         ELSE /\ pc' = "exit"
              /\ startup' = "noCapability"
              /\ exitCode' = << EXIT_SUCCESS >>
    /\ UNCHANGED << envVars, extension, imageFiles, i, successCount, failCount,
                    attempted, results, piVars, bufVars, pixVars, outDir,
                    cerrLines, summaryPrinted, logWritten, repVars >>

\* Configuration, the command line, fs::create_directories(outputDir), which
\* raises when the directory cannot be created.
Configure ==
    /\ pc = "config"
    /\ \E created \in BOOLEAN :
         IF created
         THEN /\ pc' = "scan"
              /\ extension' = NormalizeExtension(extArg)
              /\ UNCHANGED << exitCode, startup >>
         ELSE /\ pc' = "exit"
              /\ startup' = "noOutputDir"
              /\ exitCode' = << MainCatch("other") >>
              /\ UNCHANGED extension
    /\ UNCHANGED << envVars, imageFiles, i, successCount, failCount,
                    attempted, results, piVars, bufVars, pixVars, outDir,
                    cerrLines, summaryPrinted, logWritten, repVars >>

\* imageFiles = getImageFiles(inputDir, extension) and, when it is empty, the
\* alternative extensions; exit(EXIT_FAILURE) when nothing matches.
Scan ==
    /\ pc = "scan"
    /\ LET first == getImageFiles(tree, extension)
           k == FirstAlternative(tree, Alternatives)
           ext == IF first # <<>> \/ k = 0 THEN extension ELSE Alternatives[k]
           files == IF first # <<>> \/ k = 0 THEN first
                    ELSE getImageFiles(tree, Alternatives[k])
       IN  /\ extension' = ext
           /\ imageFiles' = files
           /\ IF NoFilesFound(files)
              THEN /\ pc' = "exit"
                   /\ exitCode' = << EXIT_FAILURE >>
              ELSE /\ pc' = "loop"
                   /\ UNCHANGED exitCode
    /\ i' = 0
    /\ successCount' = 0
    /\ failCount' = 0
    /\ UNCHANGED << envVars, startup, attempted, results, piVars, bufVars,
                    pixVars, outDir, cerrLines, summaryPrinted, logWritten, repVars >>

\* ------------------------------------------------------- main: the batch loop
\* for (i = 0; i < imageFiles.size(); ++i): the call of processImage
LoopCall ==
    /\ pc = "loop"
    /\ stage = "idle"
    /\ LoopCondition(i, Len(imageFiles))
    /\ attempted' = Append(attempted, i + 1)
    /\ stage' = "load"
    /\ trace' = <<>>
    /\ exc' = NoExc
    /\ retval' = FALSE
    /\ saved' = 0
    /\ oDeviceSrc' = NULL
    /\ oDeviceDst' = NULL
    /\ frees' = NoFrees
    /\ UNCHANGED << envVars, mainVars, results, devHeap, nAlloc, nFree,
                    pixVars, outDir, cerrLines >>

\* bool success = processImage(...); if (success) successCount++ else failCount++
LoopReturn ==
    /\ pc = "loop"
    /\ stage = "ret"
    /\ results' = Append(results, retval)
    /\ successCount' = CountAfter(retval, successCount, failCount)[1]
    /\ failCount' = CountAfter(retval, successCount, failCount)[2]
    /\ i' = i + 1
    /\ stage' = "idle"
    /\ UNCHANGED << envVars, pc, exitCode, startup, extension, imageFiles,
                    summaryPrinted, logWritten, repVars, attempted, trace, exc, retval,
                    saved, bufVars, pixVars, outDir, cerrLines >>

\* (imageFiles.size() > 0 ? totalDuration.count() / imageFiles.size() : 0):
\* the division is C++ integer division; for the non-negative durations a
\* clock yields it truncates.
AverageRoundedUp(total, n) == IF n > 0 THEN (total + n - 1) \div n ELSE 0
Average(total, n) == IF n > 0 THEN total \div n ELSE 0

\* the loop condition fails: endTime is taken and the console summary printed
Summary ==
    /\ pc = "loop"
    /\ stage = "idle"
    /\ ~ LoopCondition(i, Len(imageFiles))
    /\ \E ms \in 0..MaxMs :
         /\ totalDuration' = << ms >>
         /\ avgPrinted' = << Average(ms, Len(imageFiles)) >>
    /\ summaryPrinted' = TRUE
    /\ pc' = "log"
    /\ UNCHANGED << envVars, exitCode, startup, extension, imageFiles, i,
                    successCount, failCount, logWritten, logFile, attempted,
                    results, piVars, bufVars, pixVars, outDir, cerrLines >>

\* logFile.is_open() after std::ofstream logFile(logPath)
LogFileIsOpen(writable) == writable

\* What the program writes to the log: the extension filter, the counts,
\* the total and average time and the list of files.
LogContents ==
    [ extension |-> extension,
      total |-> Len(imageFiles),
      successful |-> successCount,
      failed |-> failCount,
      totalTime |-> totalDuration[1],
      averageTime |-> Average(totalDuration[1], Len(imageFiles)),
      files |-> imageFiles ]

\* std::ofstream logFile(logPath); if (logFile.is_open()) { ... }
\* exit(failCount == 0 ? EXIT_SUCCESS : EXIT_FAILURE)
WriteLog ==
    /\ pc = "log"
    /\ logWritten' = LogFileIsOpen(logWritable)
    /\ logFile' = IF LogFileIsOpen(logWritable) THEN << LogContents >> ELSE <<>>
    /\ exitCode' = << ExitStatus(failCount) >>
    /\ pc' = "exit"
    /\ UNCHANGED << envVars, startup, extension, imageFiles, i, successCount,
                    failCount, summaryPrinted, totalDuration, avgPrinted,
                    attempted, results, piVars, bufVars, pixVars, outDir,
                    cerrLines >>

\* ------------------------------------------------------------ processImage
\* The image the current invocation works on.
CurImg == Len(attempted)
CurFile == imageFiles[CurImg]

\* One executed stage and whether it completed.
Step(at, ok) == [at |-> at, ok |-> ok]

\* Where control goes when stage `at` raises: out of the try block.
OnFailureDownloadUnchecked(at) == IF at = "download" THEN "save" ELSE "unwind"
OnFailureBoundsUnchecked(at) == IF at = "bounds" THEN "allocDst" ELSE "unwind"
OnFailure(at) == "unwind"

\* A statement of the try block raises: control leaves for the handlers.
Raise(at) ==
    /\ \E e \in ExcKinds : exc' = e
    /\ stage' = OnFailure(at)
    /\ trace' = Append(trace, Step(at, FALSE))
    /\ UNCHANGED << retval >>

\* A statement of the try block completes.
Proceed(at, next) ==
    /\ stage' = next
    /\ trace' = Append(trace, Step(at, TRUE))
    /\ UNCHANGED << exc, retval >>

\* npp::loadImage(inputPath, oHostSrc)
PiLoad ==
    /\ stage = "load"
    /\ \/ Proceed("load", "upload")
       \/ Raise("load")
    /\ UNCHANGED << envVars, mainVars, attempted, results, saved, bufVars,
                    pixVars, outDir, cerrLines >>

\* npp::ImageNPP_8u_C1 oDeviceSrc(oHostSrc): the allocation, then the copy to
\* the device.  When the copy raises, the buffer is already owned by the
\* wrapper's base, whose destructor frees it during unwinding.
PiUpload ==
    /\ stage = "upload"
    /\ \/ /\ Proceed("upload", "bounds")
          /\ oDeviceSrc' = Buf(CurImg, "src")
          /\ devHeap' = devHeap \cup { Buf(CurImg, "src") }
          /\ nAlloc' = nAlloc + 1
       \/ /\ Raise("upload")
          /\ oDeviceSrc' = Buf(CurImg, "src")
          /\ devHeap' = devHeap \cup { Buf(CurImg, "src") }
          /\ nAlloc' = nAlloc + 1
       \/ /\ Raise("upload")
          /\ UNCHANGED << oDeviceSrc, devHeap, nAlloc >>
    /\ UNCHANGED << envVars, mainVars, attempted, results, saved, oDeviceDst,
                    frees, nFree, pixVars, outDir, cerrLines >>

\* NPP_CHECK_NPP(nppiGetRotateBound(oSrcSize, angle, &oBoundingBox))
PiBounds ==
    /\ stage = "bounds"
    /\ \/ Proceed("bounds", "allocDst")
       \/ Raise("bounds")
    /\ UNCHANGED << envVars, mainVars, attempted, results, saved, bufVars,
                    pixVars, outDir, cerrLines >>

\* The contents a destination buffer has when the rotate kernel is invoked.
\* nppiMalloc does not initialise the memory and the program does not set it:
\* each pixel holds 0 or a stale value (1).
FreshDst == [ (1..NPix) -> {0, 1} ]

\* npp::ImageNPP_8u_C1 oDeviceDst(oBoundingBox.width, oBoundingBox.height)
PiAllocDst ==
    /\ stage = "allocDst"
    /\ \/ /\ Proceed("allocDst", "rotate")
          /\ oDeviceDst' = Buf(CurImg, "dst")
          /\ devHeap' = devHeap \cup { Buf(CurImg, "dst") }
          /\ nAlloc' = nAlloc + 1
          /\ dstPix' \in FreshDst
       \/ /\ Raise("allocDst")
          /\ UNCHANGED << oDeviceDst, devHeap, nAlloc, dstPix >>
    /\ UNCHANGED << envVars, mainVars, attempted, results, saved, oDeviceSrc,
                    frees, nFree, written, hostDst, outDir, cerrLines >>

\* NPP_CHECK_NPP(nppiRotate_8u_C1R(...)): the kernel writes the destination
\* pixels that the rotated source covers (value 2) and leaves the others.
PiRotate ==
    /\ stage = "rotate"
    /\ \/ /\ Proceed("rotate", "download")
          /\ \E w \in SUBSET (1..NPix) :
               /\ written' = w
               /\ dstPix' = [ p \in 1..NPix |-> IF p \in w THEN 2 ELSE dstPix[p] ]
       \/ /\ Raise("rotate")
          /\ UNCHANGED << written, dstPix >>
    /\ UNCHANGED << envVars, mainVars, attempted, results, saved, bufVars,
                    hostDst, outDir, cerrLines >>

\* npp::ImageCPU_8u_C1 oHostDst(oDeviceDst.size());
\* oDeviceDst.copyTo(oHostDst.data(), oHostDst.pitch())
PiDownload ==
    /\ stage = "download"
    /\ \/ /\ Proceed("download", "save")
          /\ hostDst' = dstPix
       \/ /\ Raise("download")
          /\ UNCHANGED hostDst
    /\ UNCHANGED << envVars, mainVars, attempted, results, saved, bufVars,
                    dstPix, written, outDir, cerrLines >>

\* The output directory after a file named `name` is written by image `img`.
WriteFile(dir, name, img, complete) ==
    { f \in dir : f.name # name }
        \cup { [name |-> name, img |-> img, complete |-> complete] }

\* saveImage(outputPath, oHostDst): writes the file, or raises, having
\* created the file or not.
PiSave ==
    /\ stage = "save"
    /\ \/ /\ Proceed("save", "cleanup")
          /\ outDir' = WriteFile(outDir, OutputPath(outputDir, CurFile), CurImg, TRUE)
          /\ saved' = saved + 1
       \/ /\ Raise("save")
          /\ outDir' = WriteFile(outDir, OutputPath(outputDir, CurFile), CurImg, FALSE)
          /\ saved' = saved + 1
       \/ /\ Raise("save")
          /\ UNCHANGED << outDir, saved >>
    /\ UNCHANGED << envVars, mainVars, attempted, results, bufVars, pixVars,
                    cerrLines >>

\* nppiFree(oDeviceSrc.data()); nppiFree(oDeviceDst.data());
PiCleanup ==
    /\ stage = "cleanup"
    /\ LET ps == ExplicitFrees(oDeviceSrc, oDeviceDst)
       IN  /\ devHeap' = FreeAll(ps, devHeap)
           /\ frees' = CountFrees(ps, frees)
           /\ nFree' = nFree + Len(ps)
    /\ Proceed("cleanup", "scopeExit")
    /\ UNCHANGED << envVars, mainVars, attempted, results, saved, oDeviceSrc,
                    oDeviceDst, nAlloc, pixVars, outDir, cerrLines >>

\* return true: the objects of the try block are destroyed.
PiReturnTrue ==
    /\ stage = "scopeExit"
    /\ LET ps == ScopeExitFrees(oDeviceSrc, oDeviceDst)
       IN  /\ devHeap' = FreeAll(ps, devHeap)
           /\ frees' = CountFrees(ps, frees)
           /\ nFree' = nFree + Len(ps)
    /\ stage' = "ret"
    /\ retval' = TRUE
    /\ dstPix' = NoPix
    /\ written' = {}
    /\ hostDst' = NoPix
    /\ UNCHANGED << envVars, mainVars, attempted, results, trace, exc, saved,
                    oDeviceSrc, oDeviceDst, nAlloc, outDir, cerrLines >>

\* An exception leaves the try block: the objects constructed so far are
\* destroyed, then a handler of processImage prints and returns false.  An
\* exception no handler catches reaches main's handlers.
PiUnwind ==
    /\ stage = "unwind"
    /\ LET ps == ScopeExitFrees(oDeviceSrc, oDeviceDst)
       IN  /\ devHeap' = FreeAll(ps, devHeap)
           /\ frees' = CountFrees(ps, frees)
           /\ nFree' = nFree + Len(ps)
    /\ dstPix' = NoPix
    /\ written' = {}
    /\ hostDst' = NoPix
    /\ IF ProcessImageCatch(exc) # NoExc
       THEN /\ stage' = "ret"
            /\ retval' = FALSE
            /\ cerrLines' = cerrLines + 1
            /\ UNCHANGED << pc, exitCode >>
       ELSE /\ stage' = "escaped"
            /\ pc' = "exit"
            /\ exitCode' = << MainCatch(exc) >>
            /\ UNCHANGED << retval, cerrLines >>
    /\ UNCHANGED << envVars, startup, extension, imageFiles, i, successCount,
                    failCount, summaryPrinted, logWritten, repVars, attempted, results,
                    trace, exc, saved, oDeviceSrc, oDeviceDst, nAlloc, outDir >>

\* -------------------------------------------------------------------- Next
Next ==
    \/ FindCudaDevice
    \/ PrintfNPPinfo
    \/ Configure
    \/ Scan
    \/ LoopCall
    \/ PiLoad
    \/ PiUpload
    \/ PiBounds
    \/ PiAllocDst
    \/ PiRotate
    \/ PiDownload
    \/ PiSave
    \/ PiCleanup
    \/ PiReturnTrue
    \/ PiUnwind
    \/ LoopReturn
    \/ Summary
    \/ WriteLog

Spec == Init /\ [][Next]_vars

\* ------------------------------------------------------------------ claims
AllStages ==
    << "load", "upload", "bounds", "allocDst", "rotate", "download", "save",
       "cleanup" >>

\* The last stage the current invocation ran.
LastStep == trace[Len(trace)]

\* The number of entries of a sequence of booleans equal to v.
CountOf(seq, v) == Cardinality({ k \in 1..Len(seq) : seq[k] = v })

\* The batch loop was entered (the scan found files) and the run is over.
BatchOver == pc = "exit" /\ startup = "ok" /\ imageFiles # <<>>

\* The device buffers the current invocation allocated.
Allocated ==
    (IF oDeviceSrc = NULL THEN {} ELSE {"src"})
        \cup (IF oDeviceDst = NULL THEN {} ELSE {"dst"})

\* C1: when processImage returns, on every path, each device buffer the
\* invocation allocated has been released exactly once, and over the whole
\* run the number of allocations equals the number of nppiFree calls
\* (explicit calls and destructor calls alike).
C1_ReleasedExactlyOnce ==
    /\ stage = "ret" => \A b \in Allocated : frees[b] = 1
    /\ stage \in {"ret", "idle"} => nAlloc = nFree

\* C2: whenever processImage has returned (true or false) and at the start
\* of every loop iteration no device buffer is live, and the live buffers
\* always belong to the one image being processed.
C2_NoLiveBufferAcrossIterations ==
    /\ stage \in {"ret", "idle", "escaped"} => devHeap = {}
    /\ \A b \in devHeap : b.img = CurImg

\* C2 witness: a second invocation fails after allocating both buffers,
\* following a first one that succeeded.
C2_Witness ==
    /\ stage = "ret" /\ ~retval
    /\ CurImg = 2 /\ results = << TRUE >>
    /\ Allocated = {"src", "dst"}

C4_CountsMatchAttempts ==
    /\ successCount + failCount = Len(results)
    /\ successCount = CountOf(results, TRUE)
    /\ failCount = CountOf(results, FALSE)
    /\ (BatchOver /\ CountOf(results, FALSE) = 1)
          => /\ failCount = 1
             /\ successCount = Len(imageFiles) - 1
             /\ exitCode = << EXIT_FAILURE >>

\* C4 witness: three files, the second one fails.
C4_Witness ==
    /\ BatchOver
    /\ results = << TRUE, FALSE, TRUE >>

\* C5: at exit the code is 0 exactly when files were found and none of them
\* failed, and 1 otherwise (a run that found no files exits 1).
C5_ExitZeroIffNoFailures ==
    pc = "exit" =>
        /\ exitCode \in { << EXIT_SUCCESS >>, << EXIT_FAILURE >> }
        /\ exitCode = << EXIT_SUCCESS >> <=> (failCount = 0 /\ imageFiles # <<>>)

\* C6: a run whose device is unavailable or fails the capability check ends
\* with a failure exit code, with no image attempted and no output file or
\* log produced.
C6_DeviceFailureIsFatal ==
    (pc = "exit" /\ startup \in {"noDevice", "noCapability"}) =>
        /\ exitCode = << EXIT_FAILURE >>
        /\ attempted = <<>>
        /\ outDir = {}
        /\ ~logWritten

\* C7: when the scan (alternatives included) leaves the file list empty the
\* run ends at once with a non-zero exit code: processImage is never
\* invoked, the counters stay 0 and no log is written.
C7_EmptyFileListIsFatal ==
    (startup = "ok" /\ pc \notin {"config", "scan"} /\ imageFiles = <<>>) =>
        /\ pc = "exit"
        /\ exitCode = << EXIT_FAILURE >>
        /\ attempted = <<>>
        /\ successCount = 0 /\ failCount = 0
        /\ ~summaryPrinted /\ ~logWritten

\* C7 witness: a tree that holds files, none of which matches the extension
\* or an alternative, has made the run exit.
C7_Witness ==
    /\ pc = "exit" /\ startup = "ok"
    /\ tree # <<>> /\ imageFiles = <<>>

\* C8: no exception leaves processImage: a failure at any stage is caught,
\* one diagnostic is written to the error stream and false is returned;
\* true is returned only when every stage completed.
C8_NoExceptionEscapes ==
    /\ stage # "escaped"
    /\ pc = "exit" => stage = "idle"
    /\ stage = "ret" =>
         /\ retval <=> (\A k \in 1..Len(trace) : trace[k].ok)
         /\ retval => [ k \in 1..Len(trace) |-> trace[k].at ] = AllStages
         /\ ~retval => exc \in ExcKinds
    /\ cerrLines = failCount + (IF stage = "ret" /\ ~retval THEN 1 ELSE 0)

\* C8 witness: the rotate kernel fails with an exception that is not an
\* npp::Exception and processImage has returned false.
C8_Witness ==
    /\ stage = "ret" /\ ~retval /\ exc = "other"
    /\ LastStep = Step("rotate", FALSE)

\* C9: a file is written only by the save step, reached only after load,
\* upload, bounds, destination allocation, rotation and download completed;
\* an invocation in which one of them fails writes no file, and one that
\* returns true has written exactly one, complete, file.
C9_SaveOnlyAfterTransform ==
    /\ saved <= 1
    /\ stage \notin {"idle", "escaped"} =>
         /\ saved > 0 =>
              /\ \A k \in 1..6 : trace[k] = Step(AllStages[k], TRUE)
              /\ trace[7].at = "save"
         /\ (stage = "ret" /\ retval) =>
              /\ saved = 1
              /\ [ name |-> OutputPath(outputDir, CurFile), img |-> CurImg,
                   complete |-> TRUE ] \in outDir
         /\ (\E k \in 1..Len(trace) : ~trace[k].ok /\ trace[k].at # "save") =>
              /\ saved = 0
              /\ \A f \in outDir : f.img # CurImg

\* C9 witness: after a first image was saved, the second one fails in the
\* download and has returned; only the first image's file exists.
C9_Witness ==
    /\ stage = "ret" /\ ~retval /\ CurImg = 2
    /\ LastStep = Step("download", FALSE)
    /\ saved = 0 /\ Cardinality(outDir) = 1

\* C10: when the rotate kernel is invoked the destination buffer is all
\* zero, so in the image that is downloaded and saved every pixel the kernel
\* did not write is 0.
C10_DestinationZeroInitialised ==
    /\ stage = "rotate" => \A p \in 1..NPix : dstPix[p] = 0
    /\ stage = "cleanup" => \A p \in (1..NPix) \ written : hostDst[p] = 0

\* The names of the stages the current invocation has run, in order.
TraceStages == [ k \in 1..Len(trace) |-> trace[k].at ]

\* C12: within one invocation the stages run in the order load, upload,
\* bounds, destination allocation, rotate, download, save (then the explicit
\* clean-up), and the first stage that fails is the last one that runs: after
\* it only the release of the buffers and the return follow.
C12_StagesInOrderShortCircuit ==
    /\ Len(trace) <= Len(AllStages)
    /\ TraceStages = SubSeq(AllStages, 1, Len(trace))
    /\ \A k \in 1..Len(trace) : ~trace[k].ok => k = Len(trace)
    /\ (Len(trace) > 0 /\ ~LastStep.ok /\ stage # "idle") =>
            stage \in {"unwind", "ret"}
    /\ stage \in {"load", "upload", "bounds", "allocDst", "rotate", "download",
                  "save", "cleanup"} =>
            /\ stage = AllStages[Len(trace) + 1]
            /\ \A k \in 1..Len(trace) : trace[k].ok

\* C12 witness: the destination allocation fails after load, upload and
\* bounds completed, and the invocation has returned.
C12_Witness ==
    /\ stage = "ret" /\ ~retval
    /\ trace = << Step("load", TRUE), Step("upload", TRUE),
                  Step("bounds", TRUE), Step("allocDst", FALSE) >>
    /\ devHeap = {}

\* a is the truncated quotient of t by n, and 0 when n is 0.
IsTruncatedQuotient(a, t, n) ==
    IF n = 0 THEN a = 0 ELSE a * n <= t /\ t < (a + 1) * n

\* C13: the average time per image of the console summary and of the log is
\* the truncating integer division of the total elapsed milliseconds by the
\* number of files of the list (0 for an empty list): no division by zero.
C13_AverageIsTruncatedQuotient ==
    /\ summaryPrinted =>
         /\ totalDuration # <<>> /\ avgPrinted # <<>>
         /\ IsTruncatedQuotient(avgPrinted[1], totalDuration[1], Len(imageFiles))
    /\ logWritten =>
         /\ logFile # <<>>
         /\ logFile[1].totalTime = totalDuration[1]
         /\ logFile[1].total = Len(imageFiles)
         /\ IsTruncatedQuotient(logFile[1].averageTime, totalDuration[1],
                                Len(imageFiles))

\* C13 witness: two files in 3 ms: the average printed and logged is 1.
C13_Witness ==
    /\ pc = "exit" /\ logWritten
    /\ Len(imageFiles) = 2 /\ totalDuration = << 3 >>
    /\ avgPrinted = << 1 >> /\ logFile[1].averageTime = 1

\* C14: distinct files of the list get distinct output paths, and between
\* images the output directory holds one written image per success.
C14_DistinctOutputsPerInput ==
    /\ \A j, k \in 1..Len(imageFiles) :
          j # k => OutputPath(outputDir, imageFiles[j])
                      # OutputPath(outputDir, imageFiles[k])
    /\ stage = "idle" =>
          Cardinality({ f \in outDir : f.complete }) = successCount

\* Some file of the tree has extension e once lower-cased.
Matches(e) == \E k \in 1..Len(tree) : ToLower(tree[k].ext) = e

\* C15: when the configured extension matches no file, the alternatives
\* .pgm, .ppm, .jpg, .png, .bmp are tried in that order: the first one that
\* matches a file becomes the extension (the one the log records) and its
\* files the file list; the run ends with the no-files failure exactly when
\* the configured extension and all five alternatives match nothing.
C15_FallbackInOrder ==
    LET cfg == NormalizeExtension(extArg)
        order == << PGM, PPM, JPG, PNG, BMP >>
        none == \A k \in 1..5 : ~Matches(order[k])
        scanned == startup = "ok" /\ pc \notin {"config", "scan"}
    IN  /\ (scanned /\ ~Matches(cfg)) =>
             /\ none => /\ pc = "exit"
                        /\ exitCode = << EXIT_FAILURE >>
                        /\ imageFiles = <<>>
             /\ \A k \in 1..5 :
                  (Matches(order[k]) /\ \A m \in 1..(k - 1) : ~Matches(order[m])) =>
                      /\ extension = order[k]
                      /\ imageFiles # <<>>
                      /\ imageFiles = getImageFiles(tree, order[k])
                      /\ logWritten => logFile[1].extension = order[k]
        /\ (scanned /\ imageFiles = <<>>) => (~Matches(cfg) /\ none)

\* C15 witness: the default .tiff matches nothing, the tree holds a .pgm and
\* a .PPM file: the .pgm files were processed and .pgm is in the log.
C15_Witness ==
    /\ pc = "exit" /\ logWritten /\ extArg = NoArg
    /\ Matches(PGM) /\ Matches(PPM)
    /\ extension = PGM /\ logFile[1].extension = PGM

====
